---- MODULE Spec2Model ----
(***************************************************************************)
(* SerializeMixin of sautils/mixins.py: to_dict / from_dict / from_json    *)
(* over a mapped class, its instances and their relationships.             *)
(*                                                                         *)
(* The recursion of _to_dict_rec is unfolded into an explicit call stack:  *)
(* one frame per active call, one step per property of the loop of line 87.*)
(***************************************************************************)
EXTENDS Integers, Sequences, FiniteSets, TLC

VARIABLES
    cls,                  \* inspect(obj.__class__).iterate_properties
    include,              \* the class's __include__ hook, if it has one
    scalars,              \* the column attributes of every instance
    toOne,                \* the scalar relationship attributes (uselist=False)
    toMany,               \* the collection relationship attributes (uselist=True)
    pc,                   \* where the caller is
    follow_rels,          \* argument of the running to_dict
    force_serialization,  \* argument of the running to_dict
    visited,              \* the set shared by all frames of one to_dict
    stack,                \* the active calls of _to_dict_rec, outermost first
    result,               \* what to_dict returned
    entered,              \* history: how often line 85 ran for each instance
    root,                 \* history: the instance to_dict was called on
    fd,                   \* the running / finished from_dict call
    pre                   \* history: scalars when from_dict was called

vars == <<cls, include, scalars, toOne, toMany, pc, follow_rels,
          force_serialization, visited, stack, result, entered, root, fd, pre>>

schema == <<cls, include>>
heap == <<scalars, toOne, toMany>>
call == <<follow_rels, force_serialization, visited, stack, result, entered, root>>

----------------------------------------------------------------------------
(* Bounds *)

\* relationship references (ToOne targets plus collection members) in a graph
MaxEdges == 3
\* properties of a generated class
MaxProps == 2
\* frames of _to_dict_rec on the call stack (never reached by the code as it is:
\* see DepthWithinBound)
MaxDepth == 6

----------------------------------------------------------------------------
(* Instances, property names, values *)

Records == {"A", "B", "C"}
NoRec == "None"

\* property keys are character sequences, so that lstrip('_') has work to do
Name_a == <<"a">>
Name__a == <<"_", "a">>
Name___b == <<"_", "_", "b">>
Name_c == <<"c">>
Names == {Name_a, Name__a, Name___b, Name_c}

\* Python values that appear in a dict: every value has the same four fields
EmptyDict == [k \in {} |-> 0]
NoneV == [kind |-> "None", sv |-> 0, mv |-> EmptyDict, lv |-> <<>>]
Scal(n) == [kind |-> "scalar", sv |-> n, mv |-> EmptyDict, lv |-> <<>>]
DictV(d) == [kind |-> "dict", sv |-> 0, mv |-> d, lv |-> <<>>]
ListV(l) == [kind |-> "list", sv |-> 0, mv |-> EmptyDict, lv |-> l]
\* str.lstrip('_'): drop every leading underscore
RECURSIVE lstrip(_)
lstrip(s) == IF s # <<>> /\ Head(s) = "_" THEN lstrip(Tail(s)) ELSE s

\* data[k] = v
SetItem(d, k, v) == [x \in DOMAIN d \cup {k} |-> IF x = k THEN v ELSE d[x]]

\* data.update(other)
Update(d, other) ==
    [x \in DOMAIN d \cup DOMAIN other |-> IF x \in DOMAIN other THEN other[x] ELSE d[x]]

\* set(relationship)
SetOf(seq) == {seq[i] : i \in 1..Len(seq)}

----------------------------------------------------------------------------
(* Reflection: the properties of the class *)

Kinds == {"Scalar", "ToOne", "ToMany"}

Prop(k, kd, s) == [key |-> k, kind |-> kd, serialize |-> s]

\* isinstance(prop, RelationshipProperty)
IsRelationship(p) == p.kind # "Scalar"

\* prop.uselist
uselist(p) == p.kind = "ToMany"

\* faulty variant: force_serialization is not consulted
SerializeOnly(p, force) == p.serialize

\* prop.info.get('serialize', True) or force_serialization
SerializeOr(p, force) == p.serialize \/ force

\* getattr(obj, prop.key) of a relationship
Related(obj, p) == IF uselist(p) THEN toMany[obj][p.key] ELSE toOne[obj][p.key]

\* hasattr(obj, '__include__')
HasInclude == include.defined

----------------------------------------------------------------------------
(* _to_dict_rec, one frame per call *)

\* a frame: the instance, its dict so far, the index of the property being
\* processed, and the list comprehension of lines 104-107 when one is running
\* (li = index of the member being encoded, 0 when none)
Frame(obj) == [obj |-> obj, data |-> EmptyDict, pi |-> 1, lc |-> <<>>, li |-> 0]

Top == stack[Len(stack)]
SetTop(f) == [stack EXCEPT ![Len(stack)] = f]
Running == pc = "to_dict" /\ stack # <<>>
AtProp == Running /\ Top.li = 0 /\ Top.pi <= Len(cls)
CurProp == cls[Top.pi]

\* faulty variant: the call without line 85: obj is never recorded as visited
EnterNoAdd(stk, vis, obj) ==
    /\ Len(stk) < MaxDepth
    /\ stack' = Append(stk, Frame(obj))
    /\ visited' = vis
    /\ entered' = [entered EXCEPT ![obj] = @ + 1]

\* line 85 and the call itself: a new frame on top of stk, obj added to the
\* visited set vis that the call was given
Enter(stk, vis, obj) ==
    /\ Len(stk) < MaxDepth
    /\ stack' = Append(stk, Frame(obj))
    /\ visited' = vis \cup {obj}
    /\ entered' = [entered EXCEPT ![obj] = @ + 1]

\* faulty variant: the collection is never checked against visited
IntersectsNever(vis, rel) == FALSE

\* faulty variant: skip the collection only when every member is visited
IntersectsAll(vis, rel) == SetOf(rel) \subseteq vis

\* visited & set(relationship)
Intersects(vis, rel) == vis \cap SetOf(rel) # {}

\* SerializeMixin.to_dict: _to_dict_rec(self, {}, set(), follow_rels, force_serialization)
to_dict(self, fr, fs) ==
    /\ pc = "idle"
    /\ pc' = "to_dict"
    /\ follow_rels' = fr
    /\ force_serialization' = fs
    /\ Enter(<<>>, {}, self)
    /\ root' = self
    /\ UNCHANGED <<schema, heap, result, fd, pre>>

\* lines 90-91: a column property that is serialized
ScalarProp ==
    /\ AtProp
    /\ ~IsRelationship(CurProp)
    /\ SerializeOr(CurProp, force_serialization)
    /\ stack' = SetTop([Top EXCEPT
            !.data = SetItem(@, lstrip(CurProp.key), scalars[Top.obj][CurProp.key]),
            !.pi = @ + 1])
    /\ UNCHANGED <<schema, heap, pc, follow_rels, force_serialization, visited,
                   result, entered, root, fd, pre>>

\* neither branch of lines 90 / 93 is taken
OmitProp ==
    /\ AtProp
    /\ ~(~IsRelationship(CurProp) /\ SerializeOr(CurProp, force_serialization))
    /\ ~(follow_rels /\ SerializeOr(CurProp, force_serialization))
    /\ stack' = SetTop([Top EXCEPT !.pi = @ + 1])
    /\ UNCHANGED <<schema, heap, pc, follow_rels, force_serialization, visited,
                   result, entered, root, fd, pre>>

\* the guard of line 93, reached when line 90 failed
AtRelationship ==
    /\ AtProp
    /\ ~(~IsRelationship(CurProp) /\ SerializeOr(CurProp, force_serialization))
    /\ follow_rels /\ SerializeOr(CurProp, force_serialization)

\* faulty variant: an empty collection is passed over like a visited one
ToManyEmptyOmit ==
    /\ AtRelationship
    /\ uselist(CurProp)
    /\ Related(Top.obj, CurProp) = <<>>
    /\ stack' = SetTop([Top EXCEPT !.pi = @ + 1])
    /\ UNCHANGED <<schema, heap, pc, follow_rels, force_serialization, visited,
                   result, entered, root, fd, pre>>

\* lines 96-98: an empty collection
ToManyEmpty ==
    /\ AtRelationship
    /\ uselist(CurProp)
    /\ Related(Top.obj, CurProp) = <<>>
    /\ stack' = SetTop([Top EXCEPT
            !.data = SetItem(@, lstrip(CurProp.key), ListV(<<>>)),
            !.pi = @ + 1])
    /\ UNCHANGED <<schema, heap, pc, follow_rels, force_serialization, visited,
                   result, entered, root, fd, pre>>

\* lines 100-101: some member is already visited
ToManySkip ==
    /\ AtRelationship
    /\ uselist(CurProp)
    /\ Related(Top.obj, CurProp) # <<>>
    /\ Intersects(visited, Related(Top.obj, CurProp))
    /\ stack' = SetTop([Top EXCEPT !.pi = @ + 1])
    /\ UNCHANGED <<schema, heap, pc, follow_rels, force_serialization, visited,
                   result, entered, root, fd, pre>>

\* lines 103-107: the list comprehension starts with its first member
ToManyDescend ==
    /\ AtRelationship
    /\ uselist(CurProp)
    /\ Related(Top.obj, CurProp) # <<>>
    /\ ~Intersects(visited, Related(Top.obj, CurProp))
    /\ Enter(SetTop([Top EXCEPT !.lc = <<>>, !.li = 1]), visited,
             Related(Top.obj, CurProp)[1])
    /\ UNCHANGED <<schema, heap, pc, follow_rels, force_serialization, result, root, fd, pre>>

\* lines 109-111: no related instance
ToOneNone ==
    /\ AtRelationship
    /\ ~uselist(CurProp)
    /\ Related(Top.obj, CurProp) \notin visited
    /\ Related(Top.obj, CurProp) = NoRec
    /\ stack' = SetTop([Top EXCEPT
            !.data = SetItem(@, lstrip(CurProp.key), NoneV),
            !.pi = @ + 1])
    /\ UNCHANGED <<schema, heap, pc, follow_rels, force_serialization, visited,
                   result, entered, root, fd, pre>>

\* faulty variant: a visited related instance yields the key with None
ToOneSkipNull ==
    /\ AtRelationship
    /\ ~uselist(CurProp)
    /\ Related(Top.obj, CurProp) \in visited
    /\ stack' = SetTop([Top EXCEPT
            !.data = SetItem(@, lstrip(CurProp.key), NoneV),
            !.pi = @ + 1])
    /\ UNCHANGED <<schema, heap, pc, follow_rels, force_serialization, visited,
                   result, entered, root, fd, pre>>

\* line 109 fails: the related instance is already visited
ToOneSkip ==
    /\ AtRelationship
    /\ ~uselist(CurProp)
    /\ Related(Top.obj, CurProp) \in visited
    /\ stack' = SetTop([Top EXCEPT !.pi = @ + 1])
    /\ UNCHANGED <<schema, heap, pc, follow_rels, force_serialization, visited,
                   result, entered, root, fd, pre>>

\* lines 113-116: recurse into the related instance
ToOneDescend ==
    /\ AtRelationship
    /\ ~uselist(CurProp)
    /\ Related(Top.obj, CurProp) \notin visited
    /\ Related(Top.obj, CurProp) # NoRec
    /\ Enter(stack, visited, Related(Top.obj, CurProp))
    /\ UNCHANGED <<schema, heap, pc, follow_rels, force_serialization, result, root, fd, pre>>

\* faulty variant: the hook's mapping is the base and the reflected properties win
IncludedFirst(data) == IF HasInclude THEN Update(include.fields, data) ELSE data

\* lines 118-119: the hook's mapping is merged last
Included(data) == IF HasInclude THEN Update(data, include.fields) ELSE data

\* line 121 in the caller's frame: the returned dict lands where the call was made
Return ==
    /\ Running
    /\ Top.li = 0
    /\ Top.pi = Len(cls) + 1
    /\ LET ret == DictV(Included(Top.data))
           rest == SubSeq(stack, 1, Len(stack) - 1)
       IN  IF rest = <<>>
           THEN \* line 30: to_dict returns
                /\ stack' = <<>>
                /\ result' = ret
                /\ pc' = "to_dict_done"
                /\ UNCHANGED <<visited, entered>>
           ELSE LET parent == rest[Len(rest)]
                    p == cls[parent.pi]
                    rel == Related(parent.obj, p)
                    up(f) == [rest EXCEPT ![Len(rest)] = f]
                IN  /\ UNCHANGED <<result, pc>>
                    /\ IF parent.li = 0
                       THEN \* line 114
                            /\ stack' = up([parent EXCEPT
                                    !.data = SetItem(@, lstrip(p.key), ret),
                                    !.pi = @ + 1])
                            /\ UNCHANGED <<visited, entered>>
                       ELSE IF parent.li < Len(rel)
                       THEN \* lines 104-107: the next member, without a new check
                            Enter(up([parent EXCEPT !.lc = Append(@, ret),
                                                    !.li = @ + 1]),
                                  visited, rel[parent.li + 1])
                       ELSE \* line 104: the list is complete
                            /\ stack' = up([parent EXCEPT
                                    !.data = SetItem(@, lstrip(p.key),
                                                     ListV(Append(parent.lc, ret))),
                                    !.lc = <<>>,
                                    !.li = 0,
                                    !.pi = @ + 1])
                            /\ UNCHANGED <<visited, entered>>
    /\ UNCHANGED <<schema, heap, follow_rels, force_serialization, root, fd, pre>>

----------------------------------------------------------------------------
(* from_dict / from_json *)

\* no from_dict has been called yet
NoCall == [obj |-> NoRec, data |-> EmptyDict, pi |-> 0, status |-> "none",
           ret |-> NoRec, err |-> "", key |-> <<>>, src |-> NoRec, via |-> ""]

\* json.loads of a text: a parsed mapping, or ValueError on malformed text
Malformed == [wellformed |-> FALSE, doc |-> EmptyDict]
dumps(d) == [wellformed |-> TRUE, doc |-> d]
loads(text) == text.doc

\* SerializeMixin.from_dict: _from_dict_rec(self, model_dict) starts its loop
StartFromDict(self, model_dict, src, via) ==
    /\ pc \in {"idle", "to_dict_done"}
    /\ pc' = "from_dict"
    /\ fd' = [NoCall EXCEPT !.obj = self, !.data = model_dict, !.pi = 1,
                            !.status = "running", !.src = src, !.via = via]
    /\ pre' = scalars
    /\ UNCHANGED <<schema, heap, call>>

from_dict(self, model_dict, src) == StartFromDict(self, model_dict, src, "from_dict")

\* SerializeMixin.from_json: parse, then from_dict
from_json(self, json_model) ==
    IF json_model.wellformed
    THEN StartFromDict(self, loads(json_model), NoRec, "from_json")
    ELSE /\ pc \in {"idle", "to_dict_done"}
         /\ pc' = "done"
         /\ fd' = [NoCall EXCEPT !.obj = self, !.status = "raised",
                                 !.err = "ValueError", !.via = "from_json"]
         /\ pre' = scalars
         /\ UNCHANGED <<schema, heap, call>>

\* faulty variant: the lookup uses the property key as it is
RawKey(p) == p.key

\* line 130: prop.key.lstrip('_'), the key looked up in data
LookupKey(p) == lstrip(p.key)

\* line 129 is false: relationship properties are passed over
FromDictSkip ==
    /\ pc = "from_dict"
    /\ fd.pi <= Len(cls)
    /\ IsRelationship(cls[fd.pi])
    /\ fd' = [fd EXCEPT !.pi = @ + 1]
    /\ UNCHANGED <<schema, heap, pc, call, pre>>

\* line 130: setattr(obj, prop.key, data[prop.key.lstrip('_')])
FromDictSet ==
    /\ pc = "from_dict"
    /\ fd.pi <= Len(cls)
    /\ ~IsRelationship(cls[fd.pi])
    /\ LookupKey(cls[fd.pi]) \in DOMAIN fd.data
    /\ scalars' = [scalars EXCEPT ![fd.obj][cls[fd.pi].key] = fd.data[LookupKey(cls[fd.pi])]]
    /\ fd' = [fd EXCEPT !.pi = @ + 1]
    /\ UNCHANGED <<schema, toOne, toMany, pc, call, pre>>

\* faulty variant: a missing key yields None, as data.get would
FromDictDefault ==
    /\ pc = "from_dict"
    /\ fd.pi <= Len(cls)
    /\ ~IsRelationship(cls[fd.pi])
    /\ LookupKey(cls[fd.pi]) \notin DOMAIN fd.data
    /\ scalars' = [scalars EXCEPT ![fd.obj][cls[fd.pi].key] = NoneV]
    /\ fd' = [fd EXCEPT !.pi = @ + 1]
    /\ UNCHANGED <<schema, toOne, toMany, pc, call, pre>>

\* line 130: the subscript raises KeyError
FromDictRaise ==
    /\ pc = "from_dict"
    /\ fd.pi <= Len(cls)
    /\ ~IsRelationship(cls[fd.pi])
    /\ LookupKey(cls[fd.pi]) \notin DOMAIN fd.data
    /\ fd' = [fd EXCEPT !.status = "raised", !.err = "KeyError",
                        !.key = LookupKey(cls[fd.pi])]
    /\ pc' = "done"
    /\ UNCHANGED <<schema, heap, call, pre>>

\* what _from_dict_rec hands back once its loop is over: it has no return statement
FromDictResult(self) == NoRec

\* the loop of line 127 ends; from_dict (and from_json) return what _from_dict_rec returned
FromDictReturn ==
    /\ pc = "from_dict"
    /\ fd.pi = Len(cls) + 1
    /\ fd' = [fd EXCEPT !.status = "returned", !.ret = FromDictResult(fd.obj)]
    /\ pc' = "done"
    /\ UNCHANGED <<schema, heap, call, pre>>

----------------------------------------------------------------------------
(* Initial states: a mapped class, instances of it, their relationships *)

\* scalar attribute values, different for every (instance, column)
ColumnValue(r, n) ==
    Scal((CASE r = "A" -> 10 [] r = "B" -> 20 [] OTHER -> 30)
         + (CASE n = Name_a -> 1 [] n = Name__a -> 2 [] n = Name___b -> 3 [] OTHER -> 4))

NoScalars == [n \in Names |-> NoneV]
NoToOne == [n \in Names |-> NoRec]
NoToMany == [n \in Names |-> <<>>]

\* the class of the object-graph family: a column, a ToOne and a ToMany
GraphClasses ==
    { <<Prop(Name_c, "Scalar", TRUE), Prop(Name__a, "ToOne", TRUE),
        Prop(Name___b, "ToMany", TRUE)>>,
      <<Prop(Name___b, "ToMany", TRUE), Prop(Name__a, "ToOne", TRUE)>> }

\* one relationship reference: src's ToOne is set to dst, or dst is appended to
\* src's collection
Edges == [src : Records, kind : {"ToOne", "ToMany"}, dst : Records]

RECURSIVE OneAfter(_, _, _)
OneAfter(es, r, acc) ==
    IF es = <<>> THEN acc
    ELSE OneAfter(Tail(es), r,
                  IF Head(es).src = r /\ Head(es).kind = "ToOne" THEN Head(es).dst ELSE acc)

RECURSIVE ManyAfter(_, _, _)
ManyAfter(es, r, acc) ==
    IF es = <<>> THEN acc
    ELSE ManyAfter(Tail(es), r,
                   IF Head(es).src = r /\ Head(es).kind = "ToMany"
                   THEN Append(acc, Head(es).dst) ELSE acc)

EdgeLists == UNION {[1..n -> Edges] : n \in 0..MaxEdges}

\* a collection holds an instance once
NoDuplicates(seq) == \A i, j \in DOMAIN seq : i # j => seq[i] # seq[j]

\* the instances that the references es lead to from the instances in S
RECURSIVE ReachedFrom(_, _)
ReachedFrom(S, es) ==
    LET T == S \cup {es[i].dst : i \in {j \in DOMAIN es : es[j].src \in S}}
    IN  IF T = S THEN S ELSE ReachedFrom(T, es)

\* every object graph over Records with at most MaxEdges references, all of
\* them reachable from A (any other graph is one of these with its instances
\* renamed, plus references that no call on the renamed A ever reads)
InitGraph ==
    /\ cls \in GraphClasses
    /\ include = [defined |-> FALSE, fields |-> EmptyDict]
    /\ scalars = [r \in Records |-> [n \in Names |-> ColumnValue(r, n)]]
    /\ \E es \in EdgeLists :
         /\ toOne = [r \in Records |-> [NoToOne EXCEPT ![Name__a] = OneAfter(es, r, NoRec)]]
         /\ \A i \in DOMAIN es : es[i].src \in ReachedFrom({"A"}, es)
         /\ \A r \in Records : NoDuplicates(ManyAfter(es, r, <<>>))
         /\ toMany = [r \in Records |-> [NoToMany EXCEPT ![Name___b] = ManyAfter(es, r, <<>>)]]

\* the properties a generated class may have
ClassNames == {Name_a, Name__a, Name___b}
PropChoices == {Prop(n, k, s) : n \in ClassNames, k \in Kinds, s \in BOOLEAN}
Classes ==
    {c \in UNION {[1..n -> PropChoices] : n \in 1..MaxProps} :
        \A i, j \in DOMAIN c : i # j => c[i].key # c[j].key}

\* the hooks a generated class may have
Hooks == { [defined |-> FALSE, fields |-> EmptyDict],
           [defined |-> TRUE, fields |-> [k \in {Name_a} |-> Scal(42)]] }

\* every class of at most MaxProps properties, over a fixed graph: A and B refer
\* to each other, C is a new instance
InitClass ==
    /\ cls \in Classes
    /\ include \in Hooks
    /\ scalars = [r \in Records |->
                    IF r = "C" THEN NoScalars ELSE [n \in Names |-> ColumnValue(r, n)]]
    /\ toOne = [r \in Records |->
                    [n \in Names |-> CASE r = "A" -> "B" [] r = "B" -> "A" [] OTHER -> NoRec]]
    /\ toMany = [r \in Records |->
                    [n \in Names |-> IF r = "A" THEN <<"B">> ELSE <<>>]]

Init ==
    /\ InitGraph \/ InitClass
    /\ pc = "idle"
    /\ follow_rels = FALSE
    /\ force_serialization = FALSE
    /\ visited = {}
    /\ stack = <<>>
    /\ result = NoneV
    /\ entered = [r \in Records |-> 0]
    /\ root = NoRec
    /\ fd = NoCall
    /\ pre = scalars

\* the mappings a caller passes to from_dict
ModelDicts ==
    {[k \in ks |-> Scal(7)] : ks \in {{}, {<<"a">>}, {<<"a">>, <<"b">>, <<"c">>}}}

\* the texts a caller passes to from_json
JsonTexts == {Malformed} \cup {dumps(d) : d \in {m \in ModelDicts : m # EmptyDict}}

\* the instances that are as the constructor left them
NewInstances ==
    {r \in Records : scalars[r] = NoScalars /\ toOne[r] = NoToOne /\ toMany[r] = NoToMany}

\* a call of to_dict and the steps of its _to_dict_rec
ToDictNext ==
    \/ \E self \in Records, fr \in BOOLEAN, fs \in BOOLEAN : to_dict(self, fr, fs)
    \/ ScalarProp
    \/ OmitProp
    \/ ToManyEmpty
    \/ ToManySkip
    \/ ToManyDescend
    \/ ToOneNone
    \/ ToOneSkip
    \/ ToOneDescend
    \/ Return

Next ==
    \/ ToDictNext
    \/ \E self \in Records, d \in ModelDicts : pc = "idle" /\ from_dict(self, d, NoRec)
    \/ \E self \in NewInstances : pc = "to_dict_done" /\ from_dict(self, result.mv, root)
    \/ \E self \in NewInstances, t \in JsonTexts : pc = "idle" /\ from_json(self, t)
    \/ FromDictSkip
    \/ FromDictSet
    \/ FromDictRaise
    \/ FromDictReturn

Spec == Init /\ [][Next]_vars

\* to_dict alone: a call that has started keeps running, the code is
\* synchronous and nothing in it waits
FairSpec == Init /\ [][ToDictNext]_vars /\ WF_vars(ToDictNext)

----------------------------------------------------------------------------
(* The stack bound is never what stops a call *)
DepthWithinBound == Len(stack) <= MaxEdges + 1

----------------------------------------------------------------------------
(* Claims *)

\* a relationship of an instance other than root leads back to root
CycleBackToRoot ==
    \E r \in visited \ {root}, i \in DOMAIN cls :
        \/ cls[i].kind = "ToOne" /\ toOne[r][cls[i].key] = root
        \/ cls[i].kind = "ToMany" /\ root \in SetOf(toMany[r][cls[i].key])

\* C1: to_dict terminates on every finite object graph, cyclic ones included:
\* every call of to_dict that has started reaches the return of the top-level
\* _to_dict_rec.
C1_Terminates == (pc = "to_dict") ~> (pc = "to_dict_done")

\* a call with follow_rels over a graph with a cycle through root has returned
C1_Witness == pc = "to_dict_done" /\ follow_rels /\ CycleBackToRoot

\* the frame a step has just pushed, and the frame of its caller
NewTop == stack'[Len(stack')]
Caller == stack'[Len(stack') - 1]

\* C10 as stated: within one to_dict no instance is entered (line 85) more
\* than once.
C10_EnteredOnce == \A r \in Records : entered[r] <= 1

\* C10, amended: visited is checked before every ToOne descent and once before
\* a collection is iterated, not before each member. Every entry adds the
\* instance to visited; every entry through a ToOne property or as the first
\* member of a collection is of an instance not yet in visited. (Only a later
\* member of a collection can be entered again.)
C10_DescentChecked ==
    [][\A r \in Records :
          entered'[r] # entered[r] =>
              /\ NewTop.obj = r
              /\ visited' = visited \cup {r}
              /\ (Len(stack') > 1 /\ Caller.li <= 1 => r \notin visited)]_vars

\* some instance has been entered a second time, as a later member of a collection
C10_Witness ==
    /\ pc = "to_dict"
    /\ Len(stack) > 1
    /\ stack[Len(stack) - 1].li > 1
    /\ entered[Top.obj] = 2

\* C5: from_dict, when it succeeds, returns the instance it was called on
\* (and from_json returns what from_dict returned).
C5_ReturnsSelf == fd.status = "returned" => fd.ret = fd.obj

\* the scalar properties whose stripped name is not a key of the mapping
MissingProps(data) ==
    {i \in DOMAIN cls : ~IsRelationship(cls[i]) /\ lstrip(cls[i].key) \notin DOMAIN data}

\* C7: from_dict fails with KeyError whenever the stripped name of a scalar
\* property is absent from the mapping, whatever the property's serialize
\* flag: it does not return normally, the error names a missing key, and the
\* attribute of a missing field is never assigned.
C7_MissingFieldFails ==
    (fd.status # "none" /\ fd.err # "ValueError" /\ MissingProps(fd.data) # {}) =>
        /\ fd.status # "returned"
        /\ pc = "done" =>
              /\ fd.status = "raised"
              /\ fd.err = "KeyError"
              /\ \E i \in MissingProps(fd.data) : fd.key = lstrip(cls[i].key) /\ fd.pi = i
        /\ \A i \in MissingProps(fd.data) :
              scalars[fd.obj][cls[i].key] = pre[fd.obj][cls[i].key]

\* from_dict has raised on a property that is not serialized, after assigning
\* an earlier one
C7_Witness ==
    /\ fd.status = "raised"
    /\ fd.err = "KeyError"
    /\ fd.pi > 1
    /\ ~cls[fd.pi].serialize
    /\ scalars # pre

\* the key a property writes, and whether the running call serializes it
Key(p) == lstrip(p.key)
Effective(p) == SerializeOr(p, force_serialization)

\* some property after i, among the first n, writes to the key of property i
LaterWriter(i, n) == \E j \in (i + 1)..n : Key(cls[j]) = Key(cls[i])

\* the hook supplies the key of property i
HookWrites(i) == HasInclude /\ Key(cls[i]) \in DOMAIN include.fields

\* property i of obj is an empty relationship that the running call follows
EmptyRelationship(obj, i) ==
    /\ follow_rels /\ Effective(cls[i]) /\ IsRelationship(cls[i])
    /\ Related(obj, cls[i]) = (IF uselist(cls[i]) THEN <<>> ELSE NoRec)

\* data, the dict of obj after its first n properties (and, if merged, the
\* hook), has the key of an empty relationship i, with [] or None unless a
\* later property or the hook has written the same key
EmptyRelationshipEmitted(obj, data, i, n, merged) ==
    EmptyRelationship(obj, i) =>
        /\ Key(cls[i]) \in DOMAIN data
        /\ (~LaterWriter(i, n) /\ ~(merged /\ HookWrites(i))) =>
              data[Key(cls[i])] = (IF uselist(cls[i]) THEN ListV(<<>>) ELSE NoneV)

\* C8: with follow_rels and the property effectively serializable, an empty
\* ToMany yields the key with [] and a ToOne without related instance yields
\* the key with None; the key is present in the output.
C8_EmptyRelationships ==
    /\ \A k \in DOMAIN stack : \A i \in 1..(stack[k].pi - 1) :
          EmptyRelationshipEmitted(stack[k].obj, stack[k].data, i, stack[k].pi - 1, FALSE)
    /\ pc = "to_dict_done" =>
          \A i \in DOMAIN cls : EmptyRelationshipEmitted(root, result.mv, i, Len(cls), TRUE)

\* a returned dict holds [] for an empty collection and None for an absent ToOne
C8_Witness ==
    /\ pc = "to_dict_done"
    /\ \E i, j \in DOMAIN cls :
          /\ cls[i].kind = "ToMany" /\ EmptyRelationship(root, i)
          /\ result.mv[Key(cls[i])] = ListV(<<>>)
          /\ cls[j].kind = "ToOne" /\ EmptyRelationship(root, j)
          /\ result.mv[Key(cls[j])] = NoneV

\* every dict inside v has the hook's value at each of the hook's keys
RECURSIVE HookWins(_)
HookWins(v) ==
    CASE v.kind = "dict" ->
            /\ \A k \in DOMAIN include.fields :
                  k \in DOMAIN v.mv /\ v.mv[k] = include.fields[k]
            /\ \A k \in DOMAIN v.mv : HookWins(v.mv[k])
      [] v.kind = "list" -> \A i \in DOMAIN v.lv : HookWins(v.lv[i])
      [] OTHER -> TRUE

\* C6: the mapping of __include__ is merged after all reflected properties:
\* at every key of the hook the output holds the hook's value, in the
\* top-level dict and in every nested one.
C6_HookPrecedence == (pc = "to_dict_done" /\ HasInclude) => HookWins(result)

\* the hook has overwritten a reflected column in the top-level dict and in a
\* nested one
C6_Witness ==
    /\ pc = "to_dict_done" /\ HasInclude
    /\ \E i \in DOMAIN cls :
          ~IsRelationship(cls[i]) /\ Effective(cls[i]) /\ HookWrites(i)
    /\ \E k \in DOMAIN result.mv : result.mv[k].kind = "dict"

\* some property other than i, or (if merged) the hook, writes the key of i
OtherWriter(i, merged) ==
    \/ \E j \in DOMAIN cls : j # i /\ Key(cls[j]) = Key(cls[i])
    \/ merged /\ HookWrites(i)

\* property i, not marked serializable, leaves no key of its own without
\* force_serialization
HiddenWithoutForce(data, i, merged) ==
    (~cls[i].serialize /\ ~force_serialization) =>
        (Key(cls[i]) \in DOMAIN data => OtherWriter(i, merged))

\* C3 as stated: a property marked serialize=false is absent without
\* force_serialization, for either follow_rels, and present with it.
C3_PresentWhenForced ==
    pc = "to_dict_done" =>
        \A i \in DOMAIN cls :
            /\ HiddenWithoutForce(result.mv, i, TRUE)
            /\ (~cls[i].serialize /\ force_serialization) => Key(cls[i]) \in DOMAIN result.mv

\* what force_serialization does for property i, not marked serializable:
\* a column is present, a relationship only with follow_rels
ForcedAsAmended(data, i, merged) ==
    (~cls[i].serialize /\ force_serialization) =>
        /\ ~IsRelationship(cls[i]) => Key(cls[i]) \in DOMAIN data
        /\ (IsRelationship(cls[i]) /\ ~follow_rels) =>
              (Key(cls[i]) \in DOMAIN data => OtherWriter(i, merged))

\* C3, amended: a property marked serialize=false emits no key without
\* force_serialization, for either follow_rels (its key is in the output only
\* if another property or the hook writes the same stripped key). With
\* force_serialization a scalar property is present; a relationship property
\* is emitted only if follow_rels is true as well. This holds in the top-level
\* dict and in every nested one.
C3_VisibilityFilter ==
    /\ \A k \in DOMAIN stack : \A i \in 1..(stack[k].pi - 1) :
          /\ HiddenWithoutForce(stack[k].data, i, FALSE)
          /\ ForcedAsAmended(stack[k].data, i, FALSE)
    /\ pc = "to_dict_done" =>
          \A i \in DOMAIN cls :
              /\ HiddenWithoutForce(result.mv, i, TRUE)
              /\ ForcedAsAmended(result.mv, i, TRUE)

\* a forced call has returned a hidden column and, without follow_rels, left
\* out a hidden relationship
C3_Witness ==
    /\ pc = "to_dict_done" /\ force_serialization /\ ~follow_rels
    /\ \E i, j \in DOMAIN cls :
          /\ ~cls[i].serialize /\ ~IsRelationship(cls[i])
          /\ result.mv[Key(cls[i])] = scalars[root][cls[i].key]
          /\ ~cls[j].serialize /\ IsRelationship(cls[j])
          /\ Key(cls[j]) \notin DOMAIN result.mv

\* from_dict has finished on the dict that to_dict returned for fd.src
RoundTrip == pc = "done" /\ fd.via = "from_dict" /\ fd.src # NoRec
AllScalar == \A i \in DOMAIN cls : ~IsRelationship(cls[i])
Reproduced ==
    /\ fd.status = "returned"
    /\ \A i \in DOMAIN cls : scalars[fd.obj][cls[i].key] = pre[fd.src][cls[i].key]

\* C4 as stated: for a record of scalar properties only, whatever their
\* serialize flags and names, from_dict of to_dict(r) on a new instance
\* succeeds and reproduces every scalar field.
C4_RoundTripAnyClass ==
    (RoundTrip /\ AllScalar /\ ~follow_rels /\ ~force_serialization) => Reproduced

\* C4, amended: for a record whose properties are all scalar, all serialized by
\* the to_dict call (marked serializable, or force_serialization=True), with
\* pairwise different stripped names none of which is a key of the __include__
\* mapping, from_dict of that dict on a new instance succeeds and reproduces
\* every scalar field.
C4_RoundTrip ==
    ( /\ RoundTrip /\ AllScalar
      /\ \A i \in DOMAIN cls : Effective(cls[i]) /\ ~OtherWriter(i, TRUE) ) => Reproduced

\* two columns, one with leading underscores, have been copied to a new instance
C4_Witness ==
    /\ RoundTrip /\ AllScalar /\ Reproduced
    /\ \A i \in DOMAIN cls : Effective(cls[i]) /\ ~OtherWriter(i, TRUE)
    /\ Len(cls) > 1
    /\ \E i \in DOMAIN cls : Key(cls[i]) # cls[i].key
    /\ fd.obj # fd.src
    /\ scalars[fd.obj] # pre[fd.obj]

\* property i is a ToOne through which root and another instance refer to each
\* other, the call follows it, and no other relationship or writer of its key
\* is in the class
TwoRecordCycle(i) ==
    /\ cls[i].kind = "ToOne"
    /\ follow_rels /\ (cls[i].serialize \/ force_serialization)
    /\ toOne[root][cls[i].key] \in Records \ {root}
    /\ toOne[toOne[root][cls[i].key]][cls[i].key] = root
    /\ \A j \in DOMAIN cls : j # i => ~IsRelationship(cls[j])
    /\ ~OtherWriter(i, TRUE)

\* the step is taken at a ToOne property whose related instance is visited
AtVisitedToOne ==
    /\ AtProp
    /\ cls[Top.pi].kind = "ToOne"
    /\ follow_rels /\ (cls[Top.pi].serialize \/ force_serialization)
    /\ toOne[Top.obj][cls[Top.pi].key] \in visited

\* C2: for A.toOne = B and B.toOne = A, A.to_dict(follow_rels=True) holds B's
\* nested dict under the key of the ToOne property, and that nested dict has
\* no key for the property back to A. In general a ToOne property whose
\* related instance is already visited emits no key: the step only moves on
\* to the next property.
C2_BackReferenceOmitted ==
    /\ [](pc = "to_dict_done" =>
            \A i \in DOMAIN cls :
                TwoRecordCycle(i) =>
                    /\ Key(cls[i]) \in DOMAIN result.mv
                    /\ result.mv[Key(cls[i])].kind = "dict"
                    /\ Key(cls[i]) \notin DOMAIN result.mv[Key(cls[i])].mv)
    /\ [][AtVisitedToOne =>
            /\ Len(stack') = Len(stack)
            /\ stack' = [stack EXCEPT ![Len(stack)].pi = @ + 1]
            /\ visited' = visited]_vars

\* to_dict has returned for one of two instances that refer to each other
C2_Witness ==
    /\ pc = "to_dict_done"
    /\ \E i \in DOMAIN cls :
          /\ TwoRecordCycle(i)
          /\ result.mv[Key(cls[i])].kind = "dict"
          /\ entered[toOne[root][cls[i].key]] = 1

\* v is the dict of instance r as far as its own columns show: every column
\* that is serialized and is the only writer of its key has r's value
Encodes(v, r) ==
    /\ v.kind = "dict"
    /\ \A q \in DOMAIN cls :
          (~IsRelationship(cls[q]) /\ (cls[q].serialize \/ force_serialization)
              /\ ~OtherWriter(q, TRUE)) =>
                  /\ Key(cls[q]) \in DOMAIN v.mv
                  /\ v.mv[Key(cls[q])] = scalars[r][cls[q].key]

\* data, the dict of obj, holds for the non-empty collection property i either
\* no key or a list with one dict per member, in the order of the collection
\* (unless a later property or the hook has written the same key)
CollectionEncoded(obj, data, i, n, merged) ==
    LET rel == toMany[obj][cls[i].key] IN
    ( /\ cls[i].kind = "ToMany" /\ rel # <<>>
      /\ Key(cls[i]) \in DOMAIN data
      /\ ~LaterWriter(i, n) /\ ~(merged /\ HookWrites(i))
      /\ \A j \in 1..(i - 1) : Key(cls[j]) # Key(cls[i]) ) =>
        /\ data[Key(cls[i])].kind = "list"
        /\ Len(data[Key(cls[i])].lv) = Len(rel)
        /\ \A m \in DOMAIN rel : Encodes(data[Key(cls[i])].lv[m], rel[m])

\* the step is taken at a non-empty collection property that the call follows
AtCollection ==
    /\ AtProp
    /\ cls[Top.pi].kind = "ToMany"
    /\ follow_rels /\ (cls[Top.pi].serialize \/ force_serialization)
    /\ toMany[Top.obj][cls[Top.pi].key] # <<>>

\* C9: for a non-empty collection property, if a member is already visited
\* when the property is reached no key is emitted at all; otherwise the key
\* maps to a list with exactly one nested dict per member, in collection order.
C9_CollectionAllOrNothing ==
    /\ [][AtCollection =>
            LET rel == toMany[Top.obj][cls[Top.pi].key] IN
            IF visited \cap SetOf(rel) # {}
            THEN /\ stack' = [stack EXCEPT ![Len(stack)].pi = @ + 1]
                 /\ visited' = visited
            ELSE /\ Len(stack') = Len(stack) + 1
                 /\ NewTop.obj = rel[1]
                 /\ Caller = [Top EXCEPT !.lc = <<>>, !.li = 1]]_vars
    /\ [](/\ \A k \in DOMAIN stack : \A i \in 1..(stack[k].pi - 1) :
               CollectionEncoded(stack[k].obj, stack[k].data, i, stack[k].pi - 1, FALSE)
          /\ pc = "to_dict_done" =>
               \A i \in DOMAIN cls : CollectionEncoded(root, result.mv, i, Len(cls), TRUE))

\* a returned dict holds the two members of a collection, and another
\* collection with a visited member has left no key
C9_Witness ==
    /\ pc = "to_dict_done"
    /\ \E i \in DOMAIN cls :
          /\ cls[i].kind = "ToMany"
          /\ Len(toMany[root][cls[i].key]) = 2
          /\ Key(cls[i]) \in DOMAIN result.mv
          /\ result.mv[Key(cls[i])].kind = "list"
          /\ \E q \in DOMAIN cls : ~IsRelationship(cls[q])
          /\ \E m \in DOMAIN result.mv[Key(cls[i])].lv :
                /\ toMany[toMany[root][cls[i].key][m]][cls[i].key] # <<>>
                /\ Key(cls[i]) \notin DOMAIN result.mv[Key(cls[i])].lv[m].mv

====
